---- MODULE Spec2Model ----
(***************************************************************************)
(* Model of wandbot's retrieval core, src/src/wandbot/chat/retriever.py:   *)
(* the web source (YouRetriever), the fusion of the three sources          *)
(* (HybridRetriever), the two padding post-processors                      *)
(* (MetadataPostprocessor, LanguageFilterPostprocessor) and the session    *)
(* object (Retriever) with its stored one-shot is_avoid_query flag.        *)
(*                                                                         *)
(* Four specifications share the variables:                                *)
(*   SpecFusion   one HybridRetriever._retrieve call over drawn inputs     *)
(*   SpecPost     load_query_engine's post-processors over a fused list    *)
(*   SpecSession  Retriever calls made one after the other                 *)
(*   SpecConc     Retriever calls of two threads, interleaved              *)
(***************************************************************************)
EXTENDS Integers, Sequences, FiniteSets, TLC

VARIABLES
    \* ---- YouRetriever / HybridRetriever
    similarity_top_k,   \* YouRetriever.similarity_top_k, set by __init__
    response,           \* what requests.get does for this call
    bm25_nodes,         \* result of bm25_retriever.retrieve
    vector_nodes,       \* result of vector_retriever.retrieve
    kwargs_avoid,       \* kwargs["is_avoid_query"] of HybridRetriever._retrieve
    num_web_results,    \* querystring["num_web_results"] sent, 0 if no request
    you_nodes,          \* local you_nodes of HybridRetriever._retrieve
    all_nodes,          \* local all_nodes, the value returned
    fstage,             \* "idle" | "start" | "fused" | "error"
    \* ---- load_query_engine and the post-processors
    request,            \* arguments top_k, language, include_tags, exclude_tags
    nodes,              \* the fused list handed to the post-processors
    dummy_node,         \* what create_no_result_dummy_node() returns
    metadata_pp,        \* the MetadataPostprocessor built by load_query_engine
    language_pp,        \* the LanguageFilterPostprocessor built by it
    tag_nodes,          \* output of MetadataPostprocessor._postprocess_nodes
    lang_nodes,         \* output of LanguageFilterPostprocessor._postprocess_nodes
    pstage,             \* "idle" | "request" | "engine" | "tagged" | "filtered"
    \* ---- Retriever (the session)
    is_avoid_query,     \* Retriever.is_avoid_query: "None" | "True" | "False"
    pc,                 \* per thread: position inside Retriever.retrieve
    explicit,           \* per thread: the is_avoid_query argument of retrieve
    avoid_query,        \* per thread: local avoid_query (line 403)
    web,                \* per thread: what the call did with the web source
    pending,            \* per thread: stored "True" for its coming call
    asked,              \* per thread: its current call had "True" stored for it
    after_avoid,        \* per thread: its call directly follows an avoiding call
    took,               \* per thread: whose stored flag line 403 read
    interfered,         \* per thread: its pending flag was changed by another
    flag_owner,         \* the thread whose load_query_engine set the flag
    prev,               \* the last finished retrieve call
    stored_since        \* a flag was stored since the last finished call

fvars == <<similarity_top_k, response, bm25_nodes, vector_nodes, kwargs_avoid,
           num_web_results, you_nodes, all_nodes, fstage>>
pvars == <<request, nodes, dummy_node, metadata_pp, language_pp, tag_nodes,
           lang_nodes, pstage>>
svars == <<is_avoid_query, pc, explicit, avoid_query, web, pending, asked,
           after_avoid, took, interfered, flag_owner, prev, stored_since>>
\* the session variables other than the stored flag
shist == <<pc, explicit, avoid_query, web, pending, asked, after_avoid, took,
           interfered, flag_owner, prev, stored_since>>
vars == <<fvars, pvars, svars>>

(***************************************************************************)
(* Bounds of the model.                                                    *)
(***************************************************************************)
MaxLen == 2         \* longest lexical / vector result list drawn
MaxHits == 2        \* most hits in a drawn web response
BigSnippets == 21   \* snippets of the largest drawn hit
MaxNodes == 3       \* longest fused list handed to the post-processors
MaxTopK == 3        \* largest explicit top_k drawn

Min(a, b) == IF a < b THEN a ELSE b
Range(s) == {s[i] : i \in 1..Len(s)}

\* Sequences over S of length at most n without a repeated element.
InjSeqs(S, n) ==
    {s \in UNION {[1..k -> S] : k \in 0..n} :
        \A i, j \in 1..Len(s) : i # j => s[i] # s[j]}

SeqsUpTo(S, n) == UNION {[1..k -> S] : k \in 0..n}

(***************************************************************************)
(* Strings that the code inspects character by character (tags) are        *)
(* sequences of one-character strings.                                     *)
(***************************************************************************)
Whitespace == {" ", "\t", "\n"}

\* str.lower() on one character
LowerChar(c) ==
    CASE c = "A" -> "a"
      [] c = "B" -> "b"
      [] c = "C" -> "c"
      [] c = "D" -> "d"
      [] OTHER -> c

\* str.lower()
lower(s) == [i \in 1..Len(s) |-> LowerChar(s[i])]

RECURSIVE lstrip(_)
lstrip(s) ==
    IF s # <<>> /\ Head(s) \in Whitespace THEN lstrip(Tail(s)) ELSE s

RECURSIVE rstrip(_)
rstrip(s) ==
    IF s # <<>> /\ s[Len(s)] \in Whitespace
    THEN rstrip(SubSeq(s, 1, Len(s) - 1))
    ELSE s

\* str.strip()
strip(s) == rstrip(lstrip(s))

\* [tag.lower().strip() for tag in tags], then set(...)
NormalizedTagSet(tags) == {strip(lower(tags[i])) : i \in 1..Len(tags)}

(***************************************************************************)
(* Candidates (NodeWithScore). Scores are in tenths.                       *)
(***************************************************************************)
DocIds == {"d1", "d2", "d3"}

tag_a == <<"a">>
tag_A_sp == <<"A", " ">>
tag_sp_b == <<" ", "b">>
tag_B == <<"B">>
tag_c == <<"c">>
tag_D == <<"D">>
tag_d == <<"d">>
tag_you == <<"y", "o", "u", ".", "c", "o", "m">>

DocLanguage(d) ==
    CASE d = "d1" -> "en"
      [] d = "d2" -> "fr"
      [] d = "d3" -> "python"
      [] OTHER -> "ja"

DocTags(d) ==
    CASE d = "d1" -> <<tag_A_sp, tag_sp_b, tag_c>>
      [] d = "d2" -> <<tag_a>>
      [] d = "d3" -> <<tag_a, tag_D>>
      [] OTHER -> <<tag_B>>

\* The lexical scorer and the vector scorer score on different scales.
BM25Score(d) == CASE d = "d1" -> 42 [] d = "d2" -> 37 [] OTHER -> 25
VectorScore(d) == CASE d = "d1" -> 6 [] d = "d2" -> 9 [] OTHER -> 8

DocNode(d, score) ==
    [id |-> d, score |-> score, text |-> "text:" \o d,
     language |-> DocLanguage(d), tags |-> DocTags(d), source |-> "docs/" \o d]

BM25Node(d) == DocNode(d, BM25Score(d))
VectorNode(d) == DocNode(d, VectorScore(d))

(***************************************************************************)
(* YouRetriever: the web source.                                           *)
(***************************************************************************)
WebCap == 20        \* the ceiling of similarity_top_k
YouScore == 10      \* score=1.0
DefaultSimilarityTopK == 10
LimitChoices == {DefaultSimilarityTopK, 50}

\* YouRetriever.__init__: self.similarity_top_k
YouRetriever_init(k) == IF k <= WebCap THEN k ELSE WebCap

\* A snippet of a hit, with the node_id the TextNode built from it is given
\* (TextNode draws its id itself; any id may come out).
Snippet(text, nid) == [text |-> text, nid |-> nid]

Hit(url, snippets) == [keys_ok |-> TRUE, url |-> url, snippets |-> snippets]

hit_empty == Hit("u0", <<>>)
hit_one == Hit("u1", <<Snippet("s1", "w1")>>)
hit_two == Hit("u2", <<Snippet("s2", "d1"), Snippet("s3", "w2")>>)
hit_big ==
    Hit("u3", [i \in 1..BigSnippets |-> Snippet("s", "b" \o ToString(i))])
\* a hit that lacks one of the keys snippets, url, description, title
hit_bad == [keys_ok |-> FALSE, url |-> "u4", snippets |-> <<>>]

HitPool == {hit_empty, hit_one, hit_two, hit_big, hit_bad}

WebResponse(raises, status, json_ok, has_hits, hits) ==
    [raises |-> raises, status_code |-> status, json_ok |-> json_ok,
     has_hits |-> has_hits, hits |-> hits]

resp_raise == WebResponse(TRUE, 0, FALSE, FALSE, <<>>)     \* requests.get raises
resp_500 == WebResponse(FALSE, 500, TRUE, TRUE, <<hit_one>>)
resp_notjson == WebResponse(FALSE, 200, FALSE, FALSE, <<>>) \* response.json() raises
resp_nohits == WebResponse(FALSE, 200, TRUE, FALSE, <<>>)   \* results["hits"] raises

WebResponses ==
    {resp_raise, resp_500, resp_notjson, resp_nohits}
    \cup {WebResponse(FALSE, 200, TRUE, TRUE, h) : h \in SeqsUpTo(HitPool, MaxHits)}

\* The response is an outage: the call raises, the status is not 200 or the
\* payload is malformed.
WebOutage(r) ==
    \/ r.raises
    \/ r.status_code # 200
    \/ ~r.json_ok
    \/ ~r.has_hits
    \/ \E i \in 1..Len(r.hits) : ~r.hits[i].keys_ok

\* lines 154-157: one (snippet, metadata) pair per snippet of every hit
RECURSIVE search_hits(_)
search_hits(hits) ==
    IF hits = <<>> THEN <<>>
    ELSE [i \in 1..Len(Head(hits).snippets) |->
              [snippet |-> Head(hits).snippets[i], url |-> Head(hits).url]]
         \o search_hits(Tail(hits))

\* lines 159-165
YouNode(s) ==
    [id |-> s.snippet.nid, score |-> YouScore, text |-> s.snippet.text,
     language |-> "en", tags |-> <<tag_you>>, source |-> s.url]

Returned(v) == [exc |-> FALSE, val |-> v]
Raised == [exc |-> TRUE, val |-> <<>>]

\* The body of the try block, lines 129-165.
YouRetrieveBody(r) ==
    IF r.raises THEN Raised
    ELSE IF r.status_code # 200 THEN Returned(<<>>)
    ELSE IF ~r.json_ok THEN Raised
    ELSE IF ~r.has_hits THEN Raised
    ELSE IF \E i \in 1..Len(r.hits) : ~r.hits[i].keys_ok THEN Raised
    ELSE LET sh == search_hits(r.hits)
         IN  Returned([i \in 1..Len(sh) |-> YouNode(sh[i])])

\* The try block without its except clause.
YouRetrieveNoExcept(r) == YouRetrieveBody(r)

\* YouRetriever._retrieve: the try block and "except Exception: return []".
YouRetriever_retrieve(r) ==
    LET b == YouRetrieveBody(r)
    IN  IF b.exc THEN Returned(<<>>) ELSE b

(***************************************************************************)
(* HybridRetriever: the fusion.                                            *)
(***************************************************************************)
\* lines 204-210: the loop over bm25_nodes + vector_nodes + you_nodes
RECURSIVE CombineLoop(_, _, _)
CombineLoop(rest, acc, node_ids) ==
    IF rest = <<>> THEN acc
    ELSE LET n == Head(rest)
         IN  IF n.id \notin node_ids
             THEN CombineLoop(Tail(rest), Append(acc, n), node_ids \cup {n.id})
             ELSE CombineLoop(Tail(rest), acc, node_ids)

\* A fusion that lets the vector source go first.
ConcatVectorFirst(b, v, y) == v \o b \o y

\* line 206: bm25_nodes + vector_nodes + you_nodes
Concat(b, v, y) == b \o v \o y

Combine(s) == CombineLoop(s, <<>>, {})

\* lines 197-201: the web source is asked unless is_avoid_query is true
InvokesWeb(is_avoid) == ~is_avoid

FusionInit ==
    /\ similarity_top_k \in {YouRetriever_init(k) : k \in LimitChoices}
    /\ response \in WebResponses
    /\ bm25_nodes \in InjSeqs({BM25Node(d) : d \in DocIds}, MaxLen)
    /\ vector_nodes \in InjSeqs({VectorNode(d) : d \in DocIds}, MaxLen)
    /\ kwargs_avoid \in BOOLEAN
    /\ num_web_results = 0
    /\ you_nodes = <<>>
    /\ all_nodes = <<>>
    /\ fstage = "start"

FusionIdle ==
    /\ similarity_top_k = DefaultSimilarityTopK
    /\ response = resp_raise
    /\ bm25_nodes = <<>>
    /\ vector_nodes = <<>>
    /\ kwargs_avoid = FALSE
    /\ num_web_results = 0
    /\ you_nodes = <<>>
    /\ all_nodes = <<>>
    /\ fstage = "idle"

\* HybridRetriever._retrieve, with the YouRetriever._retrieve call it makes.
HybridRetriever_retrieve ==
    /\ fstage = "start"
    /\ LET you == IF InvokesWeb(kwargs_avoid)
                  THEN YouRetriever_retrieve(response)
                  ELSE Returned(<<>>)
       IN  /\ num_web_results' =
                 IF InvokesWeb(kwargs_avoid) THEN similarity_top_k ELSE 0
           /\ IF you.exc
              THEN /\ fstage' = "error"
                   /\ UNCHANGED <<you_nodes, all_nodes>>
              ELSE /\ you_nodes' = you.val
                   /\ all_nodes' = Combine(Concat(bm25_nodes, vector_nodes, you.val))
                   /\ fstage' = "fused"
    /\ UNCHANGED <<similarity_top_k, response, bm25_nodes, vector_nodes,
                   kwargs_avoid>>

(***************************************************************************)
(* The post-processors and load_query_engine.                              *)
(***************************************************************************)
ConfigTopK == 10            \* RetrieverConfig.top_k
ConfigLanguage == "en"      \* RetrieverConfig.language

\* create_no_result_dummy_node(): a placeholder with a reserved marker in its
\* metadata; its language is not fixed by the specification.
create_no_result_dummy_node(language) ==
    [id |-> "no-result", score |-> 0, text |-> "no-result",
     language |-> language, tags |-> <<<<"n", "o", "-", "r">>>>,
     source |-> "no-result"]

IsDummy(n) == n.source = "no-result"

\* An exclusion that triggers on any one excluded tag.
TagKeepAnyOf(node, include_tags, exclude_tags) ==
    LET normalized_tags == NormalizedTagSet(node.tags)
    IN  /\ include_tags # <<>> =>
               NormalizedTagSet(include_tags) \subseteq normalized_tags
        /\ exclude_tags # <<>> =>
               NormalizedTagSet(exclude_tags) \cap normalized_tags = {}

\* lines 84-101: the loop body, TRUE when the node is appended
TagKeep(node, include_tags, exclude_tags) ==
    LET normalized_tags == NormalizedTagSet(node.tags)
    IN  /\ include_tags # <<>> =>
               NormalizedTagSet(include_tags) \subseteq normalized_tags
        /\ exclude_tags # <<>> =>
               ~(NormalizedTagSet(exclude_tags) \subseteq normalized_tags)

\* lines 82-101
TagFilter(ns, include_tags, exclude_tags) ==
    LET Keep(n) == TagKeep(n, include_tags, exclude_tags)
    IN  SelectSeq(ns, Keep)

\* A padding that puts the placeholders first.
PadDummyFront(new_nodes, min_result_size, dummy) ==
    IF Len(new_nodes) < min_result_size
    THEN [i \in 1..(min_result_size - Len(new_nodes)) |-> dummy] \o new_nodes
    ELSE new_nodes

\* No padding at all.
PadDummyNone(new_nodes, min_result_size, dummy) == new_nodes

\* lines 102-107
PadDummy(new_nodes, min_result_size, dummy) ==
    IF Len(new_nodes) < min_result_size
    THEN new_nodes \o [i \in 1..(min_result_size - Len(new_nodes)) |-> dummy]
    ELSE new_nodes

\* MetadataPostprocessor._postprocess_nodes
MetadataPostprocess(ns, pp, dummy) ==
    IF pp.include_tags = <<>> /\ pp.exclude_tags = <<>>
    THEN ns
    ELSE PadDummy(TagFilter(ns, pp.include_tags, pp.exclude_tags),
                  pp.min_result_size, dummy)

\* lines 52-55
LanguageMatches(ns, languages) ==
    LET Match(n) == n.language \in Range(languages)
    IN  SelectSeq(ns, Match)

\* A fill taken from the rejected candidates only.
LanguagePadRejected(new_nodes, ns, min_result_size) ==
    LET Rejected(n) == n \notin Range(new_nodes)
        rest == SelectSeq(ns, Rejected)
    IN  IF Len(new_nodes) < min_result_size
        THEN new_nodes
             \o SubSeq(rest, 1, Min(min_result_size - Len(new_nodes), Len(rest)))
        ELSE new_nodes

\* lines 57-60: nodes[: min_result_size - len(new_nodes)]
LanguagePad(new_nodes, ns, min_result_size) ==
    IF Len(new_nodes) < min_result_size
    THEN new_nodes
         \o SubSeq(ns, 1, Min(min_result_size - Len(new_nodes), Len(ns)))
    ELSE new_nodes

\* LanguageFilterPostprocessor._postprocess_nodes
LanguageFilterPostprocess(ns, pp) ==
    LanguagePad(LanguageMatches(ns, pp.languages), ns, pp.min_result_size)

\* lines 345-346: "top_k or config.top_k", "language or config.language";
\* 0 and "" stand for the falsy arguments (None, 0, "").
EffectiveTopK(top_k) == IF top_k = 0 THEN ConfigTopK ELSE top_k
EffectiveLanguage(language) == IF language = "" THEN ConfigLanguage ELSE language

\* lines 352-356
BuildMetadataPostprocessor(req) ==
    [include_tags |-> req.include_tags, exclude_tags |-> req.exclude_tags,
     min_result_size |-> EffectiveTopK(req.top_k)]

\* lines 357-359
BuildLanguageFilterPostprocessor(req) ==
    [languages |-> <<EffectiveLanguage(req.language), "python">>,
     min_result_size |-> EffectiveTopK(req.top_k)]

\* lines 348-349
StoredFlagAfter(stored, arg) == IF arg # "None" THEN arg ELSE stored

NoPostprocessor == [min_result_size |-> 0]

PostPool == {VectorNode(d) : d \in DocIds \cup {"d4"}}
IncludeChoices == {<<>>, <<tag_a>>, <<tag_A_sp, tag_B>>}
ExcludeChoices == {<<>>, <<tag_a, tag_sp_b>>, <<tag_A_sp, tag_d>>, <<tag_c>>}
LanguageChoices == {"", "en", "fr"}
DummyLanguages == {"en", "xx"}

DefaultRequest ==
    [top_k |-> 0, language |-> "", include_tags |-> <<>>, exclude_tags |-> <<>>]

PostInit ==
    /\ request \in [top_k : 0..MaxTopK, language : LanguageChoices,
                    include_tags : IncludeChoices, exclude_tags : ExcludeChoices]
    /\ nodes \in InjSeqs(PostPool, MaxNodes)
    /\ dummy_node \in {create_no_result_dummy_node(l) : l \in DummyLanguages}
    /\ metadata_pp = NoPostprocessor
    /\ language_pp = NoPostprocessor
    /\ tag_nodes = <<>>
    /\ lang_nodes = <<>>
    /\ pstage = "request"

PostIdle ==
    /\ request = DefaultRequest
    /\ nodes = <<>>
    /\ dummy_node = create_no_result_dummy_node("en")
    /\ metadata_pp = NoPostprocessor
    /\ language_pp = NoPostprocessor
    /\ tag_nodes = <<>>
    /\ lang_nodes = <<>>
    /\ pstage = "idle"

\* load_query_engine as Retriever.retrieve calls it (lines 396-401): no
\* is_avoid_query argument, so the stored flag stays as it is.
PostLoadQueryEngine ==
    /\ pstage = "request"
    /\ metadata_pp' = BuildMetadataPostprocessor(request)
    /\ language_pp' = BuildLanguageFilterPostprocessor(request)
    /\ is_avoid_query' = StoredFlagAfter(is_avoid_query, "None")
    /\ pstage' = "engine"
    /\ UNCHANGED <<request, nodes, dummy_node, tag_nodes, lang_nodes>>

\* first post-processor of the engine
MetadataPostprocessor_postprocess_nodes ==
    /\ pstage = "engine"
    /\ tag_nodes' = MetadataPostprocess(nodes, metadata_pp, dummy_node)
    /\ pstage' = "tagged"
    /\ UNCHANGED <<request, nodes, dummy_node, metadata_pp, language_pp,
                   lang_nodes, is_avoid_query>>

\* second post-processor of the engine; its output enters the re-ranker
LanguageFilterPostprocessor_postprocess_nodes ==
    /\ pstage = "tagged"
    /\ lang_nodes' = LanguageFilterPostprocess(tag_nodes, language_pp)
    /\ pstage' = "filtered"
    /\ UNCHANGED <<request, nodes, dummy_node, metadata_pp, language_pp,
                   tag_nodes, is_avoid_query>>

(***************************************************************************)
(* Retriever: the session and its stored flag.                             *)
(***************************************************************************)
Threads == {"A", "B"}
FlagValues == {"None", "True", "False"}
\* the is_avoid_query argument of retrieve; "Unset" is a call without it
ExplicitValues == {"Unset", "None", "True", "False"}

\* line 379: the parameter's default is False
ArgValue(e) == IF e = "Unset" THEN "False" ELSE e

\* An effective flag that looks at the argument only.
ResolveAvoidArgOnly(stored, arg) == arg = "True"

\* lines 403 and 407: bool(self.is_avoid_query or is_avoid_query)
ResolveAvoid(stored, arg) == stored = "True" \/ arg = "True"

\* line 418
ClearedFlag(stored) == "None"

NoCall == [ran |-> FALSE, avoid |-> FALSE, raised |-> FALSE]

SessionInit ==
    /\ is_avoid_query = "None"              \* line 314
    /\ pc = [t \in Threads |-> "idle"]
    /\ explicit = [t \in Threads |-> "Unset"]
    /\ avoid_query = [t \in Threads |-> FALSE]
    /\ web = [t \in Threads |-> "-"]
    /\ pending = [t \in Threads |-> FALSE]
    /\ asked = [t \in Threads |-> FALSE]
    /\ after_avoid = [t \in Threads |-> FALSE]
    /\ took = [t \in Threads |-> "none"]
    /\ interfered = [t \in Threads |-> FALSE]
    /\ flag_owner = "none"
    /\ prev = NoCall
    /\ stored_since = FALSE

AllIdle == \A t \in Threads : pc[t] = "idle"

\* The threads other than t whose stored flag is still waiting to be read.
Waiting(t) ==
    {u \in Threads \ {t} : pending[u] \/ (asked[u] /\ pc[u] = "resolve")}

\* A caller's own load_query_engine(is_avoid_query=flag), lines 348-349.
load_query_engine(t, flag) ==
    /\ pc[t] = "idle"
    /\ is_avoid_query' = StoredFlagAfter(is_avoid_query, flag)
    /\ IF flag # "None"
       THEN /\ flag_owner' = t
            /\ pending' = [pending EXCEPT ![t] = (flag = "True")]
            /\ interfered' = [u \in Threads |->
                                 IF u = t THEN FALSE
                                 ELSE interfered[u] \/ u \in Waiting(t)]
            /\ asked' = [asked EXCEPT ![t] = FALSE]
            /\ stored_since' = TRUE
       ELSE UNCHANGED <<flag_owner, pending, asked, interfered, stored_since>>
    /\ UNCHANGED <<pc, explicit, avoid_query, web, after_avoid, took, prev>>

\* Retriever.retrieve, lines 393-401: the defaults and the engine, built by
\* load_query_engine without an is_avoid_query argument.
RetrieveBegin(t, e) ==
    /\ pc[t] = "idle"
    /\ is_avoid_query' = StoredFlagAfter(is_avoid_query, "None")
    /\ pc' = [pc EXCEPT ![t] = "resolve"]
    /\ explicit' = [explicit EXCEPT ![t] = e]
    /\ web' = [web EXCEPT ![t] = "-"]
    /\ asked' = [asked EXCEPT ![t] = pending[t]]
    /\ pending' = [pending EXCEPT ![t] = FALSE]
    /\ after_avoid' = [after_avoid EXCEPT
                          ![t] = prev.ran /\ prev.avoid /\ ~stored_since]
    /\ took' = [took EXCEPT ![t] = "none"]
    /\ UNCHANGED <<avoid_query, interfered, flag_owner, prev, stored_since>>

\* line 403
Resolve(t) ==
    /\ pc[t] = "resolve"
    /\ avoid_query' = [avoid_query EXCEPT
                          ![t] = ResolveAvoid(is_avoid_query, ArgValue(explicit[t]))]
    /\ took' = [took EXCEPT
                   ![t] = IF is_avoid_query = "True" THEN flag_owner ELSE "none"]
    /\ pc' = [pc EXCEPT ![t] = "engine"]
    /\ UNCHANGED <<is_avoid_query, explicit, web, pending, asked, after_avoid,
                   interfered, flag_owner, prev, stored_since>>

\* lines 405-417: the engine runs the fusion (which asks the web source or
\* not) and the post-processors; when the re-ranker raises, the exception
\* leaves retrieve at once.
EngineRetrieve(t, rerank_ok) ==
    /\ pc[t] = "engine"
    /\ web' = [web EXCEPT
                  ![t] = IF InvokesWeb(avoid_query[t]) THEN "invoked" ELSE "skipped"]
    /\ IF rerank_ok
       THEN /\ pc' = [pc EXCEPT ![t] = "clear"]
            /\ UNCHANGED <<prev, stored_since>>
       ELSE /\ pc' = [pc EXCEPT ![t] = "idle"]
            /\ prev' = [ran |-> TRUE, avoid |-> avoid_query[t], raised |-> TRUE]
            /\ stored_since' = FALSE
    /\ UNCHANGED <<is_avoid_query, explicit, avoid_query, pending, asked,
                   after_avoid, took, interfered, flag_owner>>

\* lines 418-419
Clear(t) ==
    /\ pc[t] = "clear"
    /\ is_avoid_query' = ClearedFlag(is_avoid_query)
    /\ flag_owner' = "none"
    /\ interfered' = [u \in Threads |-> interfered[u] \/ u \in Waiting(t)]
    /\ pc' = [pc EXCEPT ![t] = "idle"]
    /\ prev' = [ran |-> TRUE, avoid |-> avoid_query[t], raised |-> FALSE]
    /\ stored_since' = FALSE
    /\ UNCHANGED <<explicit, avoid_query, web, pending, asked, after_avoid, took>>

(***************************************************************************)
(* The specifications.                                                     *)
(***************************************************************************)
FusionNext == HybridRetriever_retrieve /\ UNCHANGED <<pvars, svars>>

InitFusion == FusionInit /\ PostIdle /\ SessionInit
SpecFusion == InitFusion /\ [][FusionNext]_vars

PostNext ==
    \/ PostLoadQueryEngine /\ UNCHANGED <<fvars, shist>>
    \/ MetadataPostprocessor_postprocess_nodes /\ UNCHANGED <<fvars, shist>>
    \/ LanguageFilterPostprocessor_postprocess_nodes /\ UNCHANGED <<fvars, shist>>

InitPost == FusionIdle /\ PostInit /\ SessionInit
SpecPost == InitPost /\ [][PostNext]_vars

\* Calls made one after the other: a call starts when no call is running.
SessionNext ==
    \/ \E t \in Threads, f \in FlagValues :
          AllIdle /\ load_query_engine(t, f) /\ UNCHANGED <<fvars, pvars>>
    \/ \E t \in Threads, e \in ExplicitValues :
          AllIdle /\ RetrieveBegin(t, e) /\ UNCHANGED <<fvars, pvars>>
    \/ \E t \in Threads : Resolve(t) /\ UNCHANGED <<fvars, pvars>>
    \/ \E t \in Threads, ok \in BOOLEAN :
          EngineRetrieve(t, ok) /\ UNCHANGED <<fvars, pvars>>
    \/ \E t \in Threads : Clear(t) /\ UNCHANGED <<fvars, pvars>>

InitSession == FusionIdle /\ PostIdle /\ SessionInit
SpecSession == InitSession /\ [][SessionNext]_vars

\* Calls of two threads with no serialization.
ConcNext ==
    \/ \E t \in Threads, f \in FlagValues :
          load_query_engine(t, f) /\ UNCHANGED <<fvars, pvars>>
    \/ \E t \in Threads, e \in ExplicitValues :
          RetrieveBegin(t, e) /\ UNCHANGED <<fvars, pvars>>
    \/ \E t \in Threads : Resolve(t) /\ UNCHANGED <<fvars, pvars>>
    \/ \E t \in Threads, ok \in BOOLEAN :
          EngineRetrieve(t, ok) /\ UNCHANGED <<fvars, pvars>>
    \/ \E t \in Threads : Clear(t) /\ UNCHANGED <<fvars, pvars>>

SpecConc == InitSession /\ [][ConcNext]_vars

Spec == SpecSession

(***************************************************************************)
(* Properties of the fusion (SpecFusion).                                  *)
(***************************************************************************)
Ids(s) == {s[i].id : i \in 1..Len(s)}

\* the position of the first candidate of s that has this id
FirstIndex(s, id) == CHOOSE i \in 1..Len(s) :
                        s[i].id = id /\ \A j \in 1..(i - 1) : s[j].id # id

\* C1: the fused list holds exactly one candidate per node id, that candidate
\* is the one of the highest-precedence source that returned the id (lexical
\* over vector over web), and the order is that of the concatenation lexical,
\* vector, web with the later duplicates removed.
C1_FusedFirstOccurrence ==
    fstage = "fused" =>
        LET cat == bm25_nodes \o vector_nodes \o you_nodes
        IN  /\ \A i, j \in 1..Len(all_nodes) :
                   i # j => all_nodes[i].id # all_nodes[j].id
            /\ Ids(all_nodes) = Ids(cat)
            /\ \A k \in 1..Len(all_nodes) :
                   LET id == all_nodes[k].id
                   IN  /\ all_nodes[k] = cat[FirstIndex(cat, id)]
                       /\ id \in Ids(bm25_nodes) =>
                              all_nodes[k] \in Range(bm25_nodes)
                       /\ id \notin Ids(bm25_nodes) /\ id \in Ids(vector_nodes) =>
                              all_nodes[k] \in Range(vector_nodes)
            /\ \A k, l \in 1..Len(all_nodes) :
                   k < l => FirstIndex(cat, all_nodes[k].id)
                                < FirstIndex(cat, all_nodes[l].id)

\* an id returned by all three sources, and a lower-scored lexical candidate
\* ahead of a higher-scored one
C1_Witness ==
    /\ fstage = "fused"
    /\ \E id \in Ids(bm25_nodes) : id \in Ids(vector_nodes) /\ id \in Ids(you_nodes)
    /\ Len(all_nodes) >= 3
    /\ all_nodes[1].score < all_nodes[2].score

\* C6: one web retrieval yields at most 20 candidates.
C6_WebCapHolds ==
    fstage = "fused" => Len(you_nodes) <= WebCap

\* C7: on a web outage (the call raises, a non-200 status, a malformed
\* payload) the web source contributes nothing and raises nothing, and the
\* fused list is the lexical candidates followed by the vector candidates
\* the lexical source did not return.
C7_SoftFailOnOutage ==
    /\ fstage # "error"
    /\ (fstage = "fused" /\ InvokesWeb(kwargs_avoid) /\ WebOutage(response)) =>
           LET NotLexical(n) == n.id \notin Ids(bm25_nodes)
           IN  /\ you_nodes = <<>>
               /\ all_nodes = bm25_nodes \o SelectSeq(vector_nodes, NotLexical)

\* a payload whose second hit is malformed, after a well-formed first hit
C7_Witness ==
    /\ fstage = "fused"
    /\ InvokesWeb(kwargs_avoid)
    /\ response.status_code = 200
    /\ response.hits = <<hit_one, hit_bad>>
    /\ Len(all_nodes) = 3
    /\ Len(bm25_nodes) = 2
    /\ Len(vector_nodes) = 2

(***************************************************************************)
(* Properties of the post-processors (SpecPost).                           *)
(***************************************************************************)
\* the tag a raw tag stands for, by table
CanonTag(t) ==
    CASE t = tag_a -> "a"
      [] t = tag_A_sp -> "a"
      [] t = tag_sp_b -> "b"
      [] t = tag_B -> "b"
      [] t = tag_c -> "c"
      [] t = tag_D -> "d"
      [] t = tag_d -> "d"
      [] OTHER -> "other"

CanonSet(tags) == {CanonTag(tags[i]) : i \in 1..Len(tags)}

RequestN == IF request.top_k = 0 THEN ConfigTopK ELSE request.top_k
TagsActive == request.include_tags # <<>> \/ request.exclude_tags # <<>>
PostTagged == pstage \in {"tagged", "filtered"}

\* what the tag policy says of a candidate
PolicyKeeps(n) ==
    /\ request.include_tags = <<>>
           \/ CanonSet(request.include_tags) \subseteq CanonSet(n.tags)
    /\ request.exclude_tags = <<>>
           \/ ~(CanonSet(request.exclude_tags) \subseteq CanonSet(n.tags))

Survivors == SelectSeq(nodes, PolicyKeeps)

\* C2: with a non-empty tag set, a candidate is kept iff (no include tags or
\* all of them among its tags) and (no exclude tags or not all of them among
\* its tags), tags compared lower-cased and trimmed; a candidate tagged
\* {a,b,c} is dropped for exclude tags {a,b} and kept for {a,d}.
C2_TagAllOf ==
    (PostTagged /\ TagsActive) =>
        /\ \A i \in 1..Len(nodes) :
               nodes[i] \in Range(tag_nodes) <=> PolicyKeeps(nodes[i])
        /\ \A i \in 1..Len(nodes) :
               (CanonSet(nodes[i].tags) = {"a", "b", "c"}
                   /\ request.include_tags = <<>>) =>
                   /\ CanonSet(request.exclude_tags) = {"a", "b"} =>
                          nodes[i] \notin Range(tag_nodes)
                   /\ CanonSet(request.exclude_tags) = {"a", "d"} =>
                          nodes[i] \in Range(tag_nodes)

\* exclude tags {a,d}: the candidate tagged {a,b,c} stays, the one tagged
\* {a,d} goes
C2_Witness ==
    /\ pstage = "tagged"
    /\ request.include_tags = <<>>
    /\ CanonSet(request.exclude_tags) = {"a", "d"}
    /\ \E i \in 1..Len(nodes) :
           CanonSet(nodes[i].tags) = {"a", "b", "c"} /\ nodes[i] \in Range(tag_nodes)
    /\ \E i \in 1..Len(nodes) :
           CanonSet(nodes[i].tags) = {"a", "d"} /\ nodes[i] \notin Range(tag_nodes)

\* C3: when the tag filter leaves k < N candidates, the output has exactly N
\* entries: the k survivors in their original order, then N-k placeholders.
C3_PadAtEnd ==
    (PostTagged /\ TagsActive /\ Len(Survivors) < RequestN) =>
        /\ Len(tag_nodes) = RequestN
        /\ SubSeq(tag_nodes, 1, Len(Survivors)) = Survivors
        /\ \A i \in (Len(Survivors) + 1)..RequestN :
               tag_nodes[i] = dummy_node /\ IsDummy(tag_nodes[i])
        /\ \A i \in 1..Len(Survivors) : ~IsDummy(tag_nodes[i])

\* N = 10 and 3 survivors out of order of id: 3 real entries, 7 placeholders
C3_Witness ==
    /\ pstage = "tagged"
    /\ TagsActive
    /\ RequestN = 10
    /\ Len(Survivors) = 3
    /\ Survivors[1].id = "d3"
    /\ Len(tag_nodes) = 10
    /\ IsDummy(tag_nodes[4])

LanguageOk(n) == n.language \in {EffectiveLanguage(request.language), "python"}
LangMatches == SelectSeq(tag_nodes, LanguageOk)
Occurrences(s, n) == Cardinality({i \in 1..Len(s) : s[i] = n})

\* C4: with m < N language matches the output is the m matches in their
\* original order followed by the front of the pre-filter list, until the
\* length is N or that list is used up; a match among those front items
\* appears twice.
C4_FillFromFront ==
    (pstage = "filtered" /\ Len(LangMatches) < RequestN) =>
        LET m == Len(LangMatches)
            fill == Min(RequestN - m, Len(tag_nodes))
        IN  /\ Len(lang_nodes) = Min(RequestN, m + Len(tag_nodes))
            /\ SubSeq(lang_nodes, 1, m) = LangMatches
            /\ \A i \in 1..fill : lang_nodes[m + i] = tag_nodes[i]
            /\ \A i \in 1..fill :
                   LanguageOk(tag_nodes[i]) =>
                       Occurrences(lang_nodes, tag_nodes[i]) >= 2

\* language "fr", one French match that is not first in the list and is
\* taken again by the fill
C4_Witness ==
    /\ pstage = "filtered"
    /\ request.language = "fr"
    /\ ~TagsActive
    /\ Len(LangMatches) = 1
    /\ Len(lang_nodes) = RequestN
    /\ lang_nodes[1].language = "fr"
    /\ nodes[1].language # "fr"
    /\ Occurrences(lang_nodes, lang_nodes[1]) = 2

\* C8 as stated: the list that enters the re-ranker has exactly N entries.
C8_ExactlyN ==
    pstage = "filtered" => Len(lang_nodes) = RequestN

\* C8 amended: the list that enters the re-ranker has at least N entries when
\* a tag set is non-empty or the fused list has at least N entries, and then
\* exactly N if fewer than N candidates match the language; it has all the
\* m > N matches when more than N match, and only the m matches plus the
\* whole fused list when both tag sets are empty and that is less than N.
C8_RerankInputLength ==
    pstage = "filtered" =>
        LET m == Len(LangMatches)
            L == Len(tag_nodes)
        IN  /\ Len(lang_nodes) = IF m >= RequestN THEN m ELSE Min(RequestN, m + L)
            /\ TagsActive => (L >= RequestN /\ Len(lang_nodes) >= RequestN)
            /\ Len(nodes) >= RequestN => Len(lang_nodes) >= RequestN
            /\ ((TagsActive \/ Len(nodes) >= RequestN) /\ m < RequestN) =>
                   Len(lang_nodes) = RequestN
            /\ (~TagsActive /\ m < RequestN /\ m + Len(nodes) < RequestN) =>
                   Len(lang_nodes) = m + Len(nodes)

\* tag filter active, padded by placeholders, then filled up to exactly N
C8_Witness ==
    /\ pstage = "filtered"
    /\ TagsActive
    /\ Len(Survivors) < RequestN
    /\ Len(LangMatches) < RequestN
    /\ Len(LangMatches) >= 1
    /\ Len(lang_nodes) = RequestN
    /\ \E i \in 1..Len(lang_nodes) : IsDummy(lang_nodes[i])

(***************************************************************************)
(* Properties of the session (SpecSession, SpecConc).                      *)
(***************************************************************************)
\* C5: after a retrieve call that ran with the avoid flag true, the next
\* retrieve call, made with no explicit flag and no flag stored in between,
\* invokes the web source.
C5_OneShotConsumed ==
    \A t \in Threads :
        (web[t] # "-" /\ explicit[t] = "Unset" /\ after_avoid[t]) =>
            web[t] = "invoked"

\* C9: whatever the outcome of a retrieve call, the stored flag is unset
\* when the call ends.
C9_ClearedWhenCallEnds ==
    (AllIdle /\ prev.ran /\ ~stored_since) => is_avoid_query = "None"

\* C10: the race on the stored flag. A call that was not asked to avoid the
\* web source skips it only by reading a flag that a load_query_engine call
\* stored, and a call whose own True flag was stored for it asks the web
\* source only when another thread stored or cleared the flag in between;
\* with overlapping calls both happen (the witness).
C10_FlagCrossesCalls ==
    \A t \in Threads :
        /\ (web[t] = "skipped" /\ explicit[t] # "True") => took[t] # "none"
        /\ (asked[t] /\ web[t] = "invoked") => interfered[t]

\* both calls run; B, never asked to avoid, has read the flag stored for A
\* and skipped the web source
C10_Witness ==
    /\ pc["A"] = "resolve"
    /\ asked["A"]
    /\ pc["B"] = "clear"
    /\ explicit["B"] = "Unset"
    /\ ~asked["B"]
    /\ took["B"] = "A"
    /\ web["B"] = "skipped"

====
